---- MODULE Spec2Model ----
(***************************************************************************)
(* ovation: a clap-activated switch.                                       *)
(*                                                                         *)
(* The model covers one ClapSwitch with its AudioProcessor and its         *)
(* StateManager (all three are EventEmitters), the browser services they   *)
(* use (Date.now, setTimeout, requestAnimationFrame, getUserMedia), and    *)
(* the pure functions of audio-utils.                                      *)
(*                                                                         *)
(* Units.  Time is in milliseconds.  A sample amplitude a in [-1, 1] is    *)
(* the integer 1000 * a (per mille), so the threshold 0.3 is 300.          *)
(* Spectrum magnitudes are integers on a decibel-like scale.  A frequency  *)
(* maxIndex * sampleRate / fftSize is kept as the pair of its numerator    *)
(* and denominator and compared by cross-multiplication, which is exact.   *)
(***************************************************************************)
EXTENDS Integers, Sequences, FiniteSets, TLC

(***************************************************************************)
(* Bounds of the model.                                                    *)
(***************************************************************************)
\* requiredClaps is drawn from 0..MaxRequiredClaps
MaxRequiredClaps == 3
\* the clock stops advancing at MaxTime
MaxTime == 2100
\* the clock advances by at most Quantum ms in one step
Quantum == 200
\* analysis loops at the same time: requestAnimationFrame callbacks pending,
\* and AudioProcessor.start() calls awaiting the microphone that will add one
MaxPending == 2
\* media streams at the same time: live ones (tracks not stopped), and
\* AudioProcessor.start() calls awaiting the microphone that will add one
MaxStreams == 2
\* frequencyBinCount of the analyser: the length of a frame and of a spectrum
BinCount == 24
\* longest spectrum the pure-function specification enumerates
MaxSpectrumLen == 3
\* listeners registered on the plain EventEmitter at the same time
MaxListeners == 3

(***************************************************************************)
(* Program constants (defaults of the options, and fixed fields).          *)
(***************************************************************************)
\* ClapSwitch options.requiredClaps
DefaultRequiredClaps == 2
\* ClapSwitch options.clapTimeout
DefaultClapTimeout == 1000

\* options.clapInterval of ClapSwitch by default
DefaultClapInterval == 500

\* the values of options.clapInterval a ClapSwitch is constructed with where
\* the option varies: the default and its double (longer than clapTimeout)
ClapIntervals == {DefaultClapInterval, 2 * DefaultClapInterval}

\* the clapTimeout options a switch is constructed with: half the default, so
\* that two full windows fit before MaxTime
ClapTimeouts == {DefaultClapTimeout \div 2}
\* AudioProcessor options.threshold, 0.3
DefaultThreshold == 300
\* AudioProcessor options.minDecibels
DefaultMinDecibels == -45
\* AudioProcessor options.frequencyRange[0]
DefaultFrequencyLow == 2000
\* AudioProcessor options.frequencyRange[1]
DefaultFrequencyHigh == 4000
\* AudioProcessor options.minAttackTime
DefaultMinAttackTime == 5
\* AudioProcessor options.maxAttackTime
DefaultMaxAttackTime == 20
\* AudioProcessor._cooldownPeriod
CooldownPeriod == 300
\* Date.now() when the ClapSwitch is constructed (the value the test setup pins)
StartTime == 1000
\* width of one frequency bin in Hz: sampleRate / fftSize
BinWidthHz == 1000

\* analyser.fftSize: twice the frequencyBinCount
FftSize == 2 * BinCount
\* audioContext.sampleRate
SampleRate == BinWidthHz * FftSize

Min(a, b) == IF a <= b THEN a ELSE b

Abs(x) == IF x < 0 THEN -x ELSE x

SetMin(S) == CHOOSE x \in S : \A y \in S : x <= y

\* the least positive identifier not in use
FreshId(used) == SetMin({i \in 1..(Cardinality(used) + 1) : i \notin used})

(***************************************************************************)
(* audio-utils: pure functions.                                            *)
(***************************************************************************)

\* Math.sqrt(n) rounded down, for n up to 1000 * 1000 (a full-scale sample squared)
ISqrt(n) == CHOOSE r \in 0..1000 : r * r <= n /\ (r + 1) * (r + 1) > n

RECURSIVE SumSquares(_, _)
SumSquares(buffer, i) ==
    IF i > Len(buffer) THEN 0
    ELSE buffer[i] * buffer[i] + SumSquares(buffer, i + 1)

\* the square of calculateRMS(buffer): sum / buffer.length, per mille squared,
\* as the exact fraction <<sum, length>>
MeanSquare(buffer) == <<SumSquares(buffer, 1), Len(buffer)>>

\* calculateRMS(buffer) > x, for x >= 0: sqrt(sum / n) > x iff sum > x * x * n
RmsExceeds(buffer, x) ==
    LET ms == MeanSquare(buffer) IN ms[1] > x * x * ms[2]

\* calculateRMS(buffer), rounded down to a whole per mille
calculateRMS(buffer) ==
    LET ms == MeanSquare(buffer) IN ISqrt(ms[1] \div ms[2])

\* DbFloorAmp[m + 61] = floor(1000 * 10^(m / 20)) for m in -60..0: an amplitude a
\* (per mille) has 20 * log10(a / 1000) > m  iff  a > DbFloorAmp[m + 61]
DbFloorAmp ==
    <<1, 1, 1, 1, 1, 1, 1, 2, 2, 2, 3, 3, 3, 4, 5, 5, 6, 7, 7, 8,
      10, 11, 12, 14, 15, 17, 19, 22, 25, 28, 31, 35, 39, 44, 50, 56, 63, 70, 79, 89,
      100, 112, 125, 141, 158, 177, 199, 223, 251, 281, 316, 354, 398, 446, 501, 562,
      630, 707, 794, 891, 1000>>

\* amplitudeToDecibels(amplitude), rounded up to a whole decibel: -100 below the
\* guard (amplitude 0 at this resolution), else the least m with
\* 20 * log10(a) <= m.  For a whole number d, the result > d iff the exact
\* value > d.
amplitudeToDecibels(amplitude) ==
    IF amplitude < 1 THEN -100
    ELSE IF amplitude > 1000 THEN 1
    ELSE SetMin({m \in (-60)..0 : amplitude <= DbFloorAmp[m + 61]})

\* the loop of calculateDominantFrequency from bin i (1-based here) on, with the
\* running maxIndex (0-based, as in the source) and maxValue
RECURSIVE DominantLoop(_, _, _, _)
DominantLoop(frequencyData, i, maxIndex, maxValue) ==
    IF i > Len(frequencyData) THEN maxIndex
    ELSE IF frequencyData[i] > maxValue
         THEN DominantLoop(frequencyData, i + 1, i - 1, frequencyData[i])
         ELSE DominantLoop(frequencyData, i + 1, maxIndex, maxValue)

\* maxIndex of calculateDominantFrequency: maxIndex and maxValue start at 0
DominantBin(frequencyData) ==
    DominantLoop(frequencyData, 1, 0, 0)

\* calculateDominantFrequency(frequencyData, sampleRate, fftSize) as the exact
\* fraction <<maxIndex * sampleRate, fftSize>>
calculateDominantFrequency(frequencyData, sampleRate, fftSize) ==
    <<DominantBin(frequencyData) * sampleRate, fftSize>>

\* first loop of getAttackTime: <<peakIndex, peakValue>>, peakIndex 0-based
RECURSIVE PeakLoop(_, _, _, _)
PeakLoop(buffer, i, peakIndex, peakValue) ==
    IF i > Len(buffer) THEN <<peakIndex, peakValue>>
    ELSE IF Abs(buffer[i]) > peakValue
         THEN PeakLoop(buffer, i + 1, i - 1, Abs(buffer[i]))
         ELSE PeakLoop(buffer, i + 1, peakIndex, peakValue)

\* second loop of getAttackTime: walk back while the sample is above
\* threshold * 0.1 (10 * |sample| > threshold); attackIndex 0-based
RECURSIVE AttackLoop(_, _, _)
AttackLoop(buffer, threshold, attackIndex) ==
    IF attackIndex > 0 /\ 10 * Abs(buffer[attackIndex + 1]) > threshold
    THEN AttackLoop(buffer, threshold, attackIndex - 1)
    ELSE attackIndex

getAttackTime(buffer, threshold) ==
    LET peak == PeakLoop(buffer, 1, 0, 0) IN
    IF peak[2] < threshold THEN -1
    ELSE peak[1] - AttackLoop(buffer, threshold, peak[1])

(***************************************************************************)
(* Inputs: the frames and spectra the analyser may deliver.                *)
(***************************************************************************)

\* <<samples of rise, sustained amplitude>> of a frame: a nearly silent one
\* (below minDecibels), a quiet one (below the threshold), and loud
\* ones rising too fast, as a clap does (the shortest and the longest attack
\* included), and too slowly
FrameShapes ==
    {<<6, 4>>, <<6, 100>>, <<3, 900>>, <<5, 900>>, <<6, 900>>, <<20, 900>>, <<21, 900>>}

\* a frame of BinCount samples: one sample of noise (0.01), then a rise of `width`
\* samples up to `amp`, which is then sustained
MakeFrame(width, amp) ==
    [i \in 1..BinCount |->
        IF i = 1 THEN 10
        ELSE IF i - 1 <= width THEN (amp * (i - 1)) \div width
        ELSE amp]

Frames == {MakeFrame(shape[1], shape[2]) : shape \in FrameShapes}

\* <<peak bin, peak magnitude, floor magnitude>> of a spectrum: positive
\* magnitudes peaking below, in (both ends included) and above the frequency
\* range, and the
\* decibel (negative) values getFloatFrequencyData delivers, peaking in range
SpectrumShapes ==
    {<<1, 40, 10>>, <<2, 40, 10>>, <<3, 40, 10>>, <<4, 40, 10>>, <<5, 40, 10>>,
     <<3, -30, -80>>}

MakeSpectrum(peakBin, levels) ==
    [i \in 1..BinCount |-> IF i - 1 = peakBin THEN levels[1] ELSE levels[2]]

Spectra == {MakeSpectrum(shape[1], <<shape[2], shape[3]>>) : shape \in SpectrumShapes}

(***************************************************************************)
(* State.                                                                  *)
(***************************************************************************)
VARIABLES
    now,            \* Date.now()
    options,        \* ClapSwitch.options: requiredClaps, clapTimeout
    events,         \* EventEmitter.events of each object: event -> listeners
    smState,        \* StateManager._state
    clapCount,      \* ClapSwitch._clapCount
    clapTimer,      \* ClapSwitch._clapTimer: 0 (null) or a timer id
    timers,         \* pending setTimeout callbacks
    isListening,    \* AudioProcessor._isListening
    audioContext,   \* AudioProcessor._audioContext is set
    microphone,     \* AudioProcessor._microphone: 0 (null) or the stream it reads
    mediaStream,    \* AudioProcessor._mediaStream: 0 (null) or a stream id
    animationFrame, \* AudioProcessor._animationFrame: 0 (null) or a request id
    lastClapTime,   \* AudioProcessor._lastClapTime
    frames,         \* pending requestAnimationFrame callbacks (request ids)
    liveStreams,    \* media streams whose tracks have not been stopped
    awaitingMic,    \* AudioProcessor.start() calls awaiting requestMicrophoneAccess()
    emitted,        \* the emit() calls of the last step, in order
    call,           \* the last step: the operation and what it returned
    smOptions,      \* StateManager.options: statePersistence, initialState
    localStorage,   \* window.localStorage: whether it exists, and the item
                    \* under options.storageKey
    storageLog,     \* the localStorage calls of the last step, in order
    inst,           \* history: the StateManager since its construction
    prior,          \* history: the instance the page held before this one
    ep,             \* history: the current clap episode
    uncounted,      \* history: claps handled and not yet reported in a
                    \* 'pattern' or 'pattern-canceled' payload
    everStarted,    \* history: an AudioProcessor.start() has succeeded
    eventKeys       \* the events for which the plain emitter's this.events has
                    \* an entry (an array, possibly empty)

emitterVars == <<events, eventKeys>>

csVars == <<clapCount, clapTimer, timers>>

apVars == <<isListening, audioContext, microphone, mediaStream, animationFrame,
            lastClapTime, frames, liveStreams>>

asyncVars == <<awaitingMic>>

histVars == <<ep, uncounted, everStarted>>

storeVars == <<smOptions, localStorage, storageLog, inst, prior>>

vars == <<now, options, emitterVars, smState, csVars, apVars, asyncVars, emitted, call,
          histVars, storeVars>>

\* the emitters: the ClapSwitch, its AudioProcessor and StateManager, and a
\* plain EventEmitter
Objects == {"cs", "ap", "sm", "ee"}

EventNames == {"start", "stop", "clap", "pattern", "pattern-canceled", "toggle", "error"}

\* payload of an emission without arguments, and of an 'error'
NoArg == 0 - 1

\* a boolean payload
BoolArg(b) == IF b THEN 1 ELSE 0

(***************************************************************************)
(* EventEmitter.                                                           *)
(***************************************************************************)

NoListeners == [o \in Objects |-> [e \in EventNames |-> <<>>]]

\* EventEmitter.on(event, callback) on object obj: the registry afterwards
EmitterOn(registry, obj, event, callback) ==
    [registry EXCEPT ![obj][event] = Append(@, callback)]

\* EventEmitter.emit(event, arg) on obj, with every listener it invokes and what
\* those emit in turn.  'forwardToggle' and 'forwardError' are the closures of
\* ClapSwitch._setupEventListeners; the 'clap' closure changes state and is
\* part of the Analyze step.
RECURSIVE Emit(_, _, _, _)
RECURSIVE InvokeAll(_, _, _, _)
Emit(registry, obj, event, arg) ==
    <<[src |-> obj, name |-> event, arg |-> arg]>>
        \o InvokeAll(registry, registry[obj][event], 1, arg)

InvokeAll(registry, listeners, i, arg) ==
    IF i > Len(listeners) THEN <<>>
    ELSE (CASE listeners[i] = "forwardToggle" -> Emit(registry, "cs", "toggle", arg)
            [] listeners[i] = "forwardError" -> Emit(registry, "cs", "error", arg)
            [] OTHER -> <<>>)
         \o InvokeAll(registry, listeners, i + 1, arg)

(***************************************************************************)
(* StateManager.                                                           *)
(***************************************************************************)

\* localStorage.getItem(key) when nothing is stored under key
Null == "null"

\* what localStorage may hold under options.storageKey when a page loads:
\* nothing, what _persistState wrote, or what something else wrote
StoredItems == {Null, "true", "false", "1"}

\* String(state) of a boolean
StringOf(state) == IF state THEN "true" ELSE "false"

\* what a caller may pass to setState: booleans, numbers, strings, null
SetStateArgs == {"true", "false", "0", "1", "''", "'true'", "'false'", "null"}

\* !!state
ToBoolean(state) == state \notin {"false", "0", "''", "null"}

\* a step's use of localStorage: the storage afterwards, the calls made, and
\* whether one threw
NoStorageCall(store) == [store |-> store, log |-> <<>>, failed |-> FALSE]

MutInitialStateLost(opts, store) ==
    IF opts.statePersistence /\ store.available
    THEN {[state |-> IF store.item # Null THEN store.item = "true"
                     ELSE opts.initialState,
           log |-> <<"getItem">>, failed |-> FALSE],
          [state |-> FALSE, log |-> <<"getItem throws">>, failed |-> TRUE]}
    ELSE {[state |-> opts.initialState, log |-> <<>>, failed |-> FALSE]}

\* StateManager._getInitialState: the state it may return, as getItem returns
\* or throws (the catch block logs a warning and falls through)
getInitialState(opts, store) ==
    IF opts.statePersistence /\ store.available
    THEN {[state |-> IF store.item # Null THEN store.item = "true"
                     ELSE opts.initialState,
           log |-> <<"getItem">>, failed |-> FALSE],
          [state |-> opts.initialState, log |-> <<"getItem throws">>,
           failed |-> TRUE]}
    ELSE {[state |-> opts.initialState, log |-> <<>>, failed |-> FALSE]}

MutPersistNothing(opts, store, state) == {NoStorageCall(store)}

\* StateManager._persistState with _state = state, as setItem returns or throws
\* (the catch block logs a warning)
persistState(opts, store, state) ==
    IF opts.statePersistence /\ store.available
    THEN {[store |-> [store EXCEPT !.item = StringOf(state)],
           log |-> <<"setItem">>, failed |-> FALSE],
          [store |-> store, log |-> <<"setItem throws">>, failed |-> TRUE]}
    ELSE {NoStorageCall(store)}

MutSetStateAlways(registry, cur, newState) ==
    [state |-> newState, changed |-> TRUE,
     emits |-> Emit(registry, "sm", "toggle", BoolArg(newState))]

\* StateManager.setState(state) from the state `cur`
setState(registry, cur, newState) ==
    IF newState = cur
    THEN [state |-> cur, changed |-> FALSE, emits |-> <<>>]
    ELSE [state |-> newState, changed |-> TRUE,
          emits |-> Emit(registry, "sm", "toggle", BoolArg(newState))]

MutToggleReturnsOld(registry, cur) ==
    [r |-> setState(registry, cur, ~cur), ret |-> cur]

\* StateManager.toggle(): the result of setState and the value returned
smToggle(registry, cur) ==
    [r |-> setState(registry, cur, ~cur), ret |-> ~cur]

\* StateManager.on(): the method of that name takes no listener
smOn(registry, cur) == setState(registry, cur, TRUE)

\* StateManager.off()
smOff(registry, cur) == setState(registry, cur, FALSE)

\* StateManager.setState: "this._persistState()" of a call with the result r,
\* reached only when the state changed
AfterSetState(r, opts, store) ==
    IF r.changed THEN persistState(opts, store, r.state) ELSE {NoStorageCall(store)}

\* history: the instance after a call of setState with result r and storage use p
InstAfter(i, r, p) ==
    [i EXCEPT !.changed = @ \/ r.changed, !.writeFailed = @ \/ p.failed]

\* a call of setState with result r takes effect
ApplySetState(r) ==
    \E p \in AfterSetState(r, smOptions, localStorage) :
        /\ smState' = r.state
        /\ localStorage' = p.store
        /\ storageLog' = p.log
        /\ inst' = InstAfter(inst, r, p)

(***************************************************************************)
(* ClapSwitch: construction.                                               *)
(***************************************************************************)

\* options.initialState of the StateManager a ClapSwitch creates
InitialState == FALSE

\* ClapSwitch._setupEventListeners: the registry it leaves.  The two calls on
\* the AudioProcessor reach EventEmitter.on; the call on the StateManager
\* reaches StateManager.on(), which registers nothing.
SetupRegistry ==
    EmitterOn(EmitterOn(NoListeners, "ap", "error", "forwardError"),
              "ap", "clap", "handleClap")

\* ClapSwitch._setupEventListeners: what this._stateManager.on('toggle', ...)
\* does to the state
SetupState == smOn(NoListeners, InitialState).state

NoEpisode ==
    [valid |-> TRUE, claps |-> 0, lt |-> TRUE, patterns |-> 0, cancels |-> 0,
     toggles |-> 0, patternArg |-> 0, cancelArg |-> 0, first |-> 0]

\* StateManager.options of the StateManager a ClapSwitch creates by default
DefaultSmOptions == [statePersistence |-> FALSE, initialState |-> InitialState]

\* a localStorage that holds nothing under options.storageKey
EmptyStorage == [available |-> TRUE, item |-> Null]

\* history: the page held no instance before this one
NoPrior == [kind |-> "none", persist |-> FALSE, ok |-> FALSE, state |-> FALSE]

\* a ClapSwitch as constructed with the default statePersistence and a
\* clapInterval of `intervals` in a page with the localStorage `store`, its
\* emitters holding the listeners `registry`
ConstructedWith(registry, store, intervals) ==
    /\ smOptions = DefaultSmOptions
    /\ localStorage = store
    /\ storageLog = <<>>
    /\ inst = [kind |-> "ClapSwitch",
               changed |-> smOn(NoListeners, InitialState).changed,
               readFailed |-> FALSE, writeFailed |-> FALSE]
    /\ prior = NoPrior
    /\ now = StartTime
    /\ options \in [requiredClaps : 0..MaxRequiredClaps,
                    clapTimeout : ClapTimeouts,
                    clapInterval : intervals]
    /\ events = registry
    /\ eventKeys = {}
    /\ smState = SetupState
    /\ clapCount = 0
    /\ clapTimer = 0
    /\ timers = {}
    /\ isListening = FALSE
    /\ audioContext = FALSE
    /\ microphone = 0
    /\ mediaStream = 0
    /\ animationFrame = 0
    /\ lastClapTime = 0
    /\ frames = {}
    /\ liveStreams = {}
    /\ awaitingMic = 0
    /\ emitted = <<>>
    /\ call = [op |-> "new", ret |-> "this"]
    /\ ep = NoEpisode
    /\ uncounted = 0
    /\ everStarted = FALSE

\* the same with the default clapInterval
ConstructedIn(registry, store) ==
    ConstructedWith(registry, store, {DefaultClapInterval})

\* the same with nothing stored
Constructed(registry) == ConstructedIn(registry, EmptyStorage)

Init == Constructed(SetupRegistry)

(***************************************************************************)
(* ClapSwitch: the pattern logic.                                          *)
(***************************************************************************)

TimerIds(ts) == {t.id : t \in ts}

MutClearNothing(ts, id) == ts

\* clearTimeout(id): the pending timers afterwards (no effect for an id that
\* is not pending)
clearTimeout(ts, id) == {t \in ts : t.id # id}

MutKeepTimer(ts, id) == ts

\* ClapSwitch._handleClap, "if (this._clapTimer) clearTimeout(this._clapTimer)"
ClearExistingTimer(ts, id) == IF id # 0 THEN clearTimeout(ts, id) ELSE ts

MutEarlyDeadline(time, timeout) == time + timeout \div 2

MutLateDeadline(time, timeout) == time + 2 * timeout

\* setTimeout(callback, this.options.clapTimeout): when the callback is due
Deadline(time, timeout) == time + timeout

MutPatternNeedsInterval(count, opts) ==
    count >= opts.requiredClaps /\ opts.clapInterval <= opts.clapTimeout

MutPatternCompleteLate(count, opts) == count > opts.requiredClaps

\* ClapSwitch._handleClap, "if (this._clapCount >= this.options.requiredClaps)"
PatternComplete(count, opts) == count >= opts.requiredClaps

\* history: every timer still pending when a clap has been handled was armed
\* before that clap
Supersede(ts) == {[t EXCEPT !.superseded = TRUE] : t \in ts}

MutHandleClapKeepsCount(registry, count, timer, ts, state, opts, time) ==
    LET count1 == count + 1
        ts1 == Supersede(ClearExistingTimer(ts, timer))
    IN  IF PatternComplete(count1, opts)
        THEN LET tg == smToggle(registry, state) IN
             [count |-> count1, timer |-> timer, timers |-> ts1, state |-> tg.r.state,
              emits |-> Emit(registry, "cs", "pattern", count1) \o tg.r.emits,
              completed |-> TRUE, payload |-> count1]
        ELSE LET id == FreshId(TimerIds(ts1)) IN
             [count |-> count1, timer |-> id,
              timers |-> ts1 \cup {[id |-> id, deadline |-> Deadline(time, opts.clapTimeout),
                                    superseded |-> FALSE]},
              state |-> state, emits |-> <<>>,
              completed |-> FALSE, payload |-> 0]

\* ClapSwitch._handleClap from the given fields: the fields afterwards, the
\* emissions, and (history) whether the pattern completed
handleClap(registry, count, timer, ts, state, opts, time) ==
    LET count1 == count + 1
        ts1 == Supersede(ClearExistingTimer(ts, timer))
    IN  IF PatternComplete(count1, opts)
        THEN LET tg == smToggle(registry, state) IN
             [count |-> 0, timer |-> timer, timers |-> ts1, state |-> tg.r.state,
              emits |-> Emit(registry, "cs", "pattern", count1) \o tg.r.emits,
              completed |-> TRUE, payload |-> count1]
        ELSE LET id == FreshId(TimerIds(ts1)) IN
             [count |-> count1, timer |-> id,
              timers |-> ts1 \cup {[id |-> id, deadline |-> Deadline(time, opts.clapTimeout),
                                    superseded |-> FALSE]},
              state |-> state, emits |-> <<>>,
              completed |-> FALSE, payload |-> 0]

MutOnClapStaleCount(registry, count, timer, ts, state, opts, time) ==
    LET h == handleClap(registry, count, timer, ts, state, opts, time) IN
    [h EXCEPT !.emits = Emit(registry, "cs", "clap", count) \o @]

\* the 'clap' listener of ClapSwitch._setupEventListeners: emit 'clap' with the
\* count this clap brings, then _handleClap
onClap(registry, count, timer, ts, state, opts, time) ==
    LET h == handleClap(registry, count, timer, ts, state, opts, time) IN
    [h EXCEPT !.emits = Emit(registry, "cs", "clap", count + 1) \o @]

\* history: the episode after a clap handled at `time`, the previous clap having
\* been detected at `prev`.  An episode ends with its requiredClaps-th clap or
\* with more than clapTimeout ms of silence; the next clap opens a new one.
\* `first` is the time of the clap that opened the episode.
EpisodeAfterClap(e, h, count, opts, time, prev) ==
    LET over == \/ e.claps = 0
                \/ e.claps >= opts.requiredClaps
                \/ time - prev > opts.clapTimeout
        base == IF over
                THEN [NoEpisode EXCEPT !.valid = (count = 0), !.claps = 1,
                                       !.first = time]
                ELSE [e EXCEPT !.claps = @ + 1,
                               !.lt = @ /\ (time - prev < opts.clapTimeout)]
    IN  IF h.completed
        THEN [base EXCEPT !.patterns = Min(@ + 1, 2), !.toggles = Min(@ + 1, 2),
                          !.patternArg = h.payload]
        ELSE base

MutTimerFireSilent(t) ==
    /\ t \in timers
    /\ now >= t.deadline
    /\ timers' = timers \ {t}
    /\ clapCount' = 0
    /\ emitted' = <<>>
    /\ call' = [op |-> "timeout", ret |-> "none"]
    /\ UNCHANGED <<now, options, emitterVars, smState, clapTimer, apVars, asyncVars,
                   histVars, storeVars>>

\* the setTimeout callback of ClapSwitch._handleClap
TimerFire(t) ==
    /\ t \in timers
    /\ now >= t.deadline
    /\ timers' = timers \ {t}
    /\ clapCount' = 0
    /\ emitted' = IF clapCount > 0
                  THEN Emit(events, "cs", "pattern-canceled", clapCount)
                  ELSE <<>>
    /\ ep' = IF clapCount > 0
             THEN [ep EXCEPT !.cancels = Min(@ + 1, 2), !.cancelArg = clapCount]
             ELSE ep
    /\ uncounted' = IF clapCount > 0 THEN uncounted - clapCount ELSE uncounted
    /\ UNCHANGED everStarted
    /\ call' = [op |-> "timeout", ret |-> "none"]
    /\ UNCHANGED <<now, options, emitterVars, smState, clapTimer, apVars, asyncVars,
                   storeVars>>

\* time passes: up to Quantum ms, and not past a timer that is due
Tick ==
    /\ now < MaxTime
    /\ \A t \in timers : t.deadline > now
    /\ now' = SetMin({now + Quantum} \cup {t.deadline : t \in timers})
    /\ emitted' = <<>>
    /\ call' = [op |-> "tick", ret |-> "none"]
    /\ UNCHANGED <<options, emitterVars, smState, csVars, apVars, asyncVars, histVars,
                   storeVars>>

(***************************************************************************)
(* AudioProcessor.                                                         *)
(***************************************************************************)

MutExclusiveRange(freq, low, high) ==
    freq[1] > low * freq[2] /\ freq[1] < high * freq[2]

\* the frequency <<num, den>> lies in [low, high], both inclusive
InFrequencyRange(freq, low, high) ==
    freq[1] >= low * freq[2] /\ freq[1] <= high * freq[2]

MutGateLoudnessOnly(frame) ==
    amplitudeToDecibels(calculateRMS(frame)) > DefaultMinDecibels

\* the amplitude gate of analyze: db > minDecibels && rms > threshold
PassesGate(frame) ==
    /\ amplitudeToDecibels(calculateRMS(frame)) > DefaultMinDecibels
    /\ RmsExceeds(frame, DefaultThreshold)

\* the features of a frame that passed the gate
HasCorrectAttackTime(frame) ==
    LET attackTime == getAttackTime(frame, DefaultThreshold) IN
    attackTime >= DefaultMinAttackTime /\ attackTime <= DefaultMaxAttackTime

IsInFrequencyRange(spectrum) ==
    InFrequencyRange(calculateDominantFrequency(spectrum, SampleRate, FftSize),
                     DefaultFrequencyLow, DefaultFrequencyHigh)

\* the frames and spectra of the input sets by the checks of analyze (each set
\* is computed once)
FramesPassingGate == {f \in Frames : PassesGate(f)}

FramesWithCorrectAttackTime == {f \in Frames : HasCorrectAttackTime(f)}

SpectraInFrequencyRange == {s \in Spectra : IsInFrequencyRange(s)}

MutIsClapNoCooldown(frame, spectrum, time, last) ==
    /\ frame \in FramesPassingGate
    /\ spectrum \in SpectraInFrequencyRange
    /\ frame \in FramesWithCorrectAttackTime

\* analyze: the frame is classified as a clap
IsClap(frame, spectrum, time, last) ==
    /\ frame \in FramesPassingGate
    /\ spectrum \in SpectraInFrequencyRange
    /\ frame \in FramesWithCorrectAttackTime
    /\ time - last > CooldownPeriod

\* what the checks of analyze may come to at `time`: no clap for a frame that
\* fails the amplitude gate (no spectrum is read then), and IsClap for every
\* other frame with every spectrum
AnalyzeOutcomes(time, last) ==
    {FALSE : frame \in Frames \ FramesPassingGate}
        \cup {IsClap(frame, spectrum, time, last) :
                 frame \in FramesPassingGate, spectrum \in Spectra}

MutCooldownExtended(clap, time, last) == time

\* analyze: _lastClapTime after a frame analysed at `time`; it is assigned only
\* in the branch that emits 'clap'
LastClapTimeAfter(clap, time, last) == IF clap THEN time ELSE last

\* requestAnimationFrame(analyze): the id of the new request, given the pending
\* ones.  The caller stores it in _animationFrame, so no older id is kept.
RequestFrame(pending) == FreshId(pending)

MutKeepTracks(streams, stream) == streams

\* AudioProcessor.stop, "if (this._mediaStream) ...getTracks().forEach(track =>
\* track.stop())": the streams still live afterwards
StopTracks(streams, stream) == IF stream # 0 THEN streams \ {stream} ELSE streams

\* a 'clap' listener that calls stop() is registered on the processor after
\* the one of the ClapSwitch: processor.on('clap', () => clapSwitch.stop())
StopsOnClap(registry) ==
    \E i \in 1..Len(registry["ap"]["clap"]) : registry["ap"]["clap"][i] = "stopOnClap"

\* analyze on a listening processor, once the frame (and, past the amplitude
\* gate, the spectrum) has been read: `clap` is the outcome of its checks.
\* A listener that stops the processor runs inside _onClapDetected: stop()
\* cancels the request _animationFrame names (the one now running, or that
\* of another loop) and releases the stream; analyze then goes on to request
\* the next frame.
AnalyzeFrame(id, clap) ==
    LET heard == clap /\ Len(events["ap"]["clap"]) > 0
        h == onClap(events, clapCount, clapTimer, timers, smState, options, now)
        stops == clap /\ StopsOnClap(events)
        pending == IF stops /\ animationFrame # 0
                   THEN frames \ {id, animationFrame}
                   ELSE frames \ {id}
        next == RequestFrame(pending)
    IN  /\ lastClapTime' = LastClapTimeAfter(clap, now, lastClapTime)
        /\ clapCount' = IF heard THEN h.count ELSE clapCount
        /\ clapTimer' = IF heard THEN h.timer ELSE clapTimer
        /\ timers' = IF heard THEN h.timers ELSE timers
        /\ smState' = IF heard THEN h.state ELSE smState
        /\ \E p \in (IF heard /\ h.completed
                     THEN persistState(smOptions, localStorage, h.state)
                     ELSE {NoStorageCall(localStorage)}) :
              /\ localStorage' = p.store
              /\ storageLog' = p.log
              /\ inst' = [inst EXCEPT !.changed = @ \/ (heard /\ h.completed),
                                      !.writeFailed = @ \/ p.failed]
        /\ emitted' = IF clap
                      THEN Emit(events, "ap", "clap", NoArg)
                           \o (IF heard THEN h.emits ELSE <<>>)
                           \o (IF stops
                               THEN Emit(events, "ap", "stop", NoArg)
                                    \o Emit(events, "cs", "stop", NoArg)
                               ELSE <<>>)
                      ELSE <<>>
        /\ ep' = IF heard
                 THEN EpisodeAfterClap(ep, h, clapCount, options, now, lastClapTime)
                 ELSE ep
        /\ uncounted' = IF heard THEN uncounted + 1 - h.payload ELSE uncounted
        /\ UNCHANGED everStarted
        /\ frames' = pending \cup {next}
        /\ animationFrame' = next
        /\ isListening' = (isListening /\ ~stops)
        /\ microphone' = IF stops THEN 0 ELSE microphone
        /\ liveStreams' = IF stops THEN StopTracks(liveStreams, mediaStream)
                          ELSE liveStreams
        /\ mediaStream' = IF stops THEN 0 ELSE mediaStream
        /\ call' = [op |-> "analyze", ret |-> IF clap THEN "clap" ELSE "none"]
        /\ UNCHANGED audioContext

\* one run of analyze, the requestAnimationFrame callback with request id
\* `id`: it returns at once when not listening; else it reads a frame and, if
\* the frame passes the amplitude gate, a spectrum
Analyze(id) ==
    /\ id \in frames
    /\ IF ~isListening
       THEN /\ frames' = frames \ {id}
            /\ emitted' = <<>>
            /\ call' = [op |-> "analyze", ret |-> "idle"]
            /\ UNCHANGED <<smState, csVars, isListening, audioContext, microphone,
                           mediaStream, animationFrame, lastClapTime, liveStreams,
                           histVars, localStorage, storageLog, inst>>
       ELSE \E clap \in AnalyzeOutcomes(now, lastClapTime) : AnalyzeFrame(id, clap)
    /\ UNCHANGED <<now, options, emitterVars, asyncVars, smOptions, prior>>

MutApStopUnguarded ==
    /\ frames' = IF animationFrame # 0 THEN frames \ {animationFrame} ELSE frames
    /\ animationFrame' = 0
    /\ microphone' = 0
    /\ liveStreams' = StopTracks(liveStreams, mediaStream)
    /\ mediaStream' = 0
    /\ isListening' = FALSE
    /\ emitted' = Emit(events, "ap", "stop", NoArg) \o Emit(events, "cs", "stop", NoArg)
    /\ UNCHANGED <<audioContext, lastClapTime>>

MutApStopResetsCooldown ==
    IF ~isListening
    THEN /\ UNCHANGED <<isListening, audioContext, microphone, mediaStream,
                        animationFrame, lastClapTime, frames, liveStreams>>
         /\ emitted' = Emit(events, "cs", "stop", NoArg)
    ELSE /\ frames' = IF animationFrame # 0 THEN frames \ {animationFrame} ELSE frames
         /\ animationFrame' = 0
         /\ microphone' = 0
         /\ liveStreams' = StopTracks(liveStreams, mediaStream)
         /\ mediaStream' = 0
         /\ isListening' = FALSE
         /\ lastClapTime' = 0
         /\ emitted' = Emit(events, "ap", "stop", NoArg)
                       \o Emit(events, "cs", "stop", NoArg)
         /\ UNCHANGED audioContext

\* AudioProcessor.stop(): the emissions, and the fields through the primes
apStop ==
    IF ~isListening
    THEN /\ UNCHANGED <<isListening, audioContext, microphone, mediaStream,
                        animationFrame, lastClapTime, frames, liveStreams>>
         /\ emitted' = Emit(events, "cs", "stop", NoArg)
    ELSE /\ frames' = IF animationFrame # 0 THEN frames \ {animationFrame} ELSE frames
         /\ animationFrame' = 0
         /\ microphone' = 0
         /\ liveStreams' = StopTracks(liveStreams, mediaStream)
         /\ mediaStream' = 0
         /\ isListening' = FALSE
         /\ emitted' = Emit(events, "ap", "stop", NoArg)
                       \o Emit(events, "cs", "stop", NoArg)
         /\ UNCHANGED <<audioContext, lastClapTime>>

\* ClapSwitch.stop(): this._audioProcessor.stop(), then emit 'stop'
CsStop ==
    /\ apStop
    /\ call' = [op |-> "stop", ret |-> "none"]
    /\ UNCHANGED <<now, options, emitterVars, smState, csVars, asyncVars, histVars,
                   storeVars>>

\* ClapSwitch.start() up to the await inside AudioProcessor.start().  Its first
\* await, hasMicrophoneSupport(), reads and writes nothing of the switch, so
\* the step is taken at the moment that await resumes: without a microphone
\* the call emits 'error' and rejects; otherwise AudioProcessor.start() runs
\* up to its await of requestMicrophoneAccess(), or returns at once when
\* already listening and ClapSwitch.start() emits 'start'.
CsStart(hasMicrophone) ==
    /\ IF ~hasMicrophone
       THEN /\ emitted' = Emit(events, "cs", "error", NoArg)
            /\ call' = [op |-> "start", ret |-> "rejected"]
            /\ UNCHANGED <<audioContext, awaitingMic>>
       ELSE IF isListening
       THEN /\ emitted' = Emit(events, "cs", "start", NoArg)
            /\ call' = [op |-> "start", ret |-> "resolved"]
            /\ UNCHANGED <<audioContext, awaitingMic>>
       ELSE /\ awaitingMic + Cardinality(frames) < MaxPending
            /\ awaitingMic + Cardinality(liveStreams) < MaxStreams
            /\ audioContext' = TRUE
            /\ awaitingMic' = awaitingMic + 1
            /\ emitted' = <<>>
            /\ call' = [op |-> "start", ret |-> "pending"]
    /\ UNCHANGED <<now, options, emitterVars, smState, csVars, isListening, microphone,
                   mediaStream, animationFrame, lastClapTime, frames, liveStreams,
                   histVars, storeVars>>

\* requestMicrophoneAccess() resolves: AudioProcessor.start() takes the stream,
\* sets up the pipeline, sets _isListening, starts the analysis loop and emits
\* 'start'; then ClapSwitch.start() emits 'start'
MicGranted ==
    /\ awaitingMic > 0
    /\ awaitingMic' = awaitingMic - 1
    /\ LET stream == FreshId(liveStreams)
           request == RequestFrame(frames)
       IN  /\ liveStreams' = liveStreams \cup {stream}
           /\ mediaStream' = stream
           /\ microphone' = stream
           /\ isListening' = TRUE
           /\ frames' = frames \cup {request}
           /\ animationFrame' = request
    /\ emitted' = Emit(events, "ap", "start", NoArg) \o Emit(events, "cs", "start", NoArg)
    /\ call' = [op |-> "start", ret |-> "resolved"]
    /\ everStarted' = TRUE
    /\ UNCHANGED <<now, options, emitterVars, smState, csVars, audioContext, lastClapTime,
                   ep, uncounted, storeVars>>

\* requestMicrophoneAccess() rejects: AudioProcessor.start() emits 'error' and
\* rethrows; ClapSwitch.start() catches, emits 'error' and rethrows
MicDenied ==
    /\ awaitingMic > 0
    /\ awaitingMic' = awaitingMic - 1
    /\ emitted' = Emit(events, "ap", "error", NoArg) \o Emit(events, "cs", "error", NoArg)
    /\ call' = [op |-> "start", ret |-> "rejected"]
    /\ UNCHANGED <<now, options, emitterVars, smState, csVars, apVars, histVars,
                   storeVars>>

(***************************************************************************)
(* ClapSwitch: the switch.                                                 *)
(***************************************************************************)

BoolRet(b) == IF b THEN "true" ELSE "false"

\* ClapSwitch.toggle(): this._stateManager.toggle()
CsToggle ==
    /\ LET tg == smToggle(events, smState) IN
        /\ ApplySetState(tg.r)
        /\ emitted' = tg.r.emits
        /\ call' = [op |-> "toggle", ret |-> BoolRet(tg.ret)]
    /\ UNCHANGED <<now, options, emitterVars, csVars, apVars, asyncVars, histVars,
                   smOptions, prior>>

\* obj.on(...) for obj the ClapSwitch or its StateManager, with or without a
\* listener: ClapSwitch.on() is this._stateManager.on(), which is setState(true)
CallOn(obj, event) ==
    /\ obj \in {"cs", "sm"}
    /\ LET r == smOn(events, smState) IN
        /\ ApplySetState(r)
        /\ emitted' = r.emits
        /\ call' = [op |-> "on", ret |-> BoolRet(r.changed)]
    /\ UNCHANGED <<now, options, emitterVars, csVars, apVars, asyncVars, histVars,
                   smOptions, prior>>

\* obj.off(...): ClapSwitch.off() is this._stateManager.off(), setState(false)
CallOff(obj, event) ==
    /\ obj \in {"cs", "sm"}
    /\ LET r == smOff(events, smState) IN
        /\ ApplySetState(r)
        /\ emitted' = r.emits
        /\ call' = [op |-> "off", ret |-> BoolRet(r.changed)]
    /\ UNCHANGED <<now, options, emitterVars, csVars, apVars, asyncVars, histVars,
                   smOptions, prior>>

\* the event a caller of on/off names (the methods take no arguments)
CallEvents == {"toggle"}

Next ==
    \/ Tick
    \/ \E t \in timers : TimerFire(t)
    \/ \E id \in frames : Analyze(id)
    \/ \E hasMicrophone \in BOOLEAN : CsStart(hasMicrophone)
    \/ MicGranted
    \/ MicDenied
    \/ CsStop
    \/ CsToggle
    \/ \E obj \in {"cs", "sm"}, event \in CallEvents : CallOn(obj, event)
    \/ \E obj \in {"cs", "sm"}, event \in CallEvents : CallOff(obj, event)

Spec == Init /\ [][Next]_vars

(***************************************************************************)
(* calculateDominantFrequency on its own: every spectrum of up to           *)
(* MaxSpectrumLen bins with magnitudes in SpectrumValues.                   *)
(***************************************************************************)

SpectrumValues == (-2)..2

SmallSpectra == UNION {[1..n -> SpectrumValues] : n \in 1..MaxSpectrumLen}

ComputeDominantFrequency(spectrum) ==
    /\ call' = [op |-> "calculateDominantFrequency", arg |-> spectrum,
                ret |-> calculateDominantFrequency(spectrum, SampleRate, FftSize)]
    /\ UNCHANGED <<now, options, emitterVars, smState, csVars, apVars, asyncVars, emitted,
                   histVars, storeVars>>

NextFrequency == \E spectrum \in SmallSpectra : ComputeDominantFrequency(spectrum)

SpecFrequency == Init /\ [][NextFrequency]_vars

(***************************************************************************)
(* The same switch with a 'clap' listener on its processor that stops it.   *)
(***************************************************************************)

\* constructed with the default requiredClaps
InitStopOnClap ==
    /\ Constructed(EmitterOn(SetupRegistry, "ap", "clap", "stopOnClap"))
    /\ options.requiredClaps = DefaultRequiredClaps

SpecStopOnClap == InitStopOnClap /\ [][Next]_vars

(***************************************************************************)
(* The same switch constructed with either clapInterval, for the default  *)
(* requiredClaps.                                                          *)
(***************************************************************************)

InitInterval ==
    /\ ConstructedWith(SetupRegistry, EmptyStorage, ClapIntervals)
    /\ options.requiredClaps = DefaultRequiredClaps

SpecInterval == InitInterval /\ [][Next]_vars

(***************************************************************************)
(* The switch state across page loads: a page whose localStorage may hold   *)
(* an item loads and constructs a ClapSwitch or a StateManager of its own,  *)
(* calls its state methods, and is loaded again.  Every localStorage call   *)
(* may throw.                                                               *)
(***************************************************************************)

\* the localStorage a page may find
Storages == [available : BOOLEAN, item : StoredItems]

\* the options a StateManager may be constructed with
SmOptionSets == [statePersistence : BOOLEAN, initialState : BOOLEAN]

\* history: the instance the page holds becomes the earlier one
Retired ==
    [kind |-> inst.kind, persist |-> smOptions.statePersistence,
     ok |-> localStorage.available /\ ~inst.readFailed /\ ~inst.writeFailed,
     state |-> smState]

\* the fields the constructors of ClapSwitch and AudioProcessor initialise
FreshFields ==
    /\ clapCount' = 0
    /\ clapTimer' = 0
    /\ timers' = {}
    /\ isListening' = FALSE
    /\ audioContext' = FALSE
    /\ microphone' = 0
    /\ mediaStream' = 0
    /\ animationFrame' = 0
    /\ lastClapTime' = 0
    /\ frames' = {}
    /\ liveStreams' = {}
    /\ awaitingMic' = 0
    /\ ep' = NoEpisode
    /\ uncounted' = 0
    /\ everStarted' = FALSE

\* the page loads and runs new ClapSwitch({statePersistence: persist}): the
\* StateManager is constructed with that option, then _setupEventListeners
\* calls this._stateManager.on('toggle', ...), which is setState(true)
NewClapSwitch(persist) ==
    /\ LET opts == [DefaultSmOptions EXCEPT !.statePersistence = persist] IN
       \E g \in getInitialState(opts, localStorage) :
          LET r == smOn(NoListeners, g.state) IN
          \E p \in AfterSetState(r, opts, localStorage) :
             /\ smOptions' = opts
             /\ smState' = r.state
             /\ localStorage' = p.store
             /\ storageLog' = g.log \o p.log
             /\ inst' = [kind |-> "ClapSwitch", changed |-> r.changed,
                         readFailed |-> g.failed, writeFailed |-> p.failed]
             /\ emitted' = r.emits
    /\ events' = SetupRegistry
    /\ prior' = Retired
    /\ call' = [op |-> "new ClapSwitch", ret |-> "this"]
    /\ FreshFields
    /\ UNCHANGED <<now, options, eventKeys>>

\* the page loads and runs new StateManager(opts)
NewStateManager(opts) ==
    /\ \E g \in getInitialState(opts, localStorage) :
          /\ smState' = g.state
          /\ storageLog' = g.log
          /\ inst' = [kind |-> "StateManager", changed |-> FALSE,
                      readFailed |-> g.failed, writeFailed |-> FALSE]
    /\ smOptions' = opts
    /\ events' = NoListeners
    /\ prior' = Retired
    /\ emitted' = <<>>
    /\ call' = [op |-> "new StateManager", ret |-> "this"]
    /\ FreshFields
    /\ UNCHANGED <<now, options, localStorage, eventKeys>>

\* StateManager.setState(v)
SmSetState(v) ==
    /\ LET r == setState(events, smState, ToBoolean(v)) IN
        /\ ApplySetState(r)
        /\ emitted' = r.emits
        /\ call' = [op |-> "setState", arg |-> v, ret |-> BoolRet(r.changed)]
    /\ UNCHANGED <<now, options, emitterVars, csVars, apVars, asyncVars, histVars,
                   smOptions, prior>>

InitState ==
    /\ \E store \in Storages : ConstructedIn(SetupRegistry, store)
    /\ options.requiredClaps = DefaultRequiredClaps

NextState ==
    \/ \E persist \in BOOLEAN : NewClapSwitch(persist)
    \/ \E opts \in SmOptionSets : NewStateManager(opts)
    \/ \E v \in SetStateArgs : SmSetState(v)
    \/ CsToggle
    \/ \E obj \in {"cs", "sm"}, event \in CallEvents : CallOn(obj, event)
    \/ \E obj \in {"cs", "sm"}, event \in CallEvents : CallOff(obj, event)

SpecState == InitState /\ [][NextState]_vars

(***************************************************************************)
(* EventEmitter on its own: listeners are registered on and removed from a  *)
(* plain emitter, and events are emitted on it.                             *)
(***************************************************************************)

\* the callbacks a caller registers: two that return and one that throws
Callbacks == {"f", "g", "thrower"}

Throws(callback) == callback = "thrower"

\* the events of the plain emitter
EmitterEvents == {"clap", "toggle"}

\* the argument lists of emit
ArgLists == {<<>>, <<1, 2>>}

\* the callbacks given to once(): one that returns, and one that emits the
\* event it listens to again (without arguments)
OnceCallbacks == {"f", "reemit"}

\* the onceWrapper closure once(event, callback) creates
WrapperOf(callback) == IF callback = "f" THEN "once(f)" ELSE "once(reemit)"

OnceWrappers == {WrapperOf(callback) : callback \in OnceCallbacks}

\* the callback a onceWrapper closes over
Inner(wrapper) == CHOOSE callback \in OnceCallbacks : WrapperOf(callback) = wrapper

\* the listeners given to on() that use the emitter when called: `adder`
\* registers g for the event it listens to, `remover` removes g from it
ReentrantCallbacks == {"f", "g", "adder", "remover"}

\* the event listeners are registered for where they use the emitter
ReentrantEvents == {"clap"}

\* the plain emitter: this.events (registry["ee"], with `keys` the events that
\* have an entry), and, per event, how many times this.events[event] has been
\* assigned a new array since the outermost emit began
Emitter(registry, keys) ==
    [registry |-> registry, keys |-> keys, gen |-> [e \in EventNames |-> 0]]

\* EventEmitter.on(event, callback): a new array if there is none, then push
eeOn(em, event, callback) ==
    [registry |-> EmitterOn(em.registry, "ee", event, callback),
     keys |-> em.keys \cup {event},
     gen |-> IF event \in em.keys THEN em.gen
             ELSE [em.gen EXCEPT ![event] = @ + 1]]

\* EventEmitter.off(event, callback), "filter(cb => cb !== callback)"
RemoveListener(listeners, callback) ==
    SelectSeq(listeners, LAMBDA cb : cb # callback)

\* EventEmitter.off(event, callback): nothing without an entry, else the entry
\* becomes the filtered copy
eeOff(em, event, callback) ==
    IF event \notin em.keys THEN em
    ELSE [em EXCEPT !.registry["ee"][event] = RemoveListener(@, callback),
                    !.gen[event] = @ + 1]

\* EventEmitter.off(event): nothing without an entry, else
\* "delete this.events[event]"
eeOffAll(em, event) ==
    IF event \notin em.keys THEN em
    ELSE [em EXCEPT !.registry["ee"][event] = <<>>,
                    !.keys = @ \ {event}]

\* EventEmitter.once(event, callback): on(event, onceWrapper)
eeOnce(em, event, callback) == eeOn(em, event, WrapperOf(callback))

MutCallUncaught(callback, args) ==
    [call |-> [callback |-> callback, args |-> args], thrown |-> Throws(callback)]

\* EventEmitter.emit, "try { callback(...args); } catch (error) {
\* console.error(...) }": the call made, and whether anything is thrown on
callListener(callback, args) ==
    [call |-> [callback |-> callback, args |-> args], thrown |-> FALSE]

MutListenersOfAnyEvent(registry, event) ==
    registry["ee"]["clap"] \o registry["ee"]["toggle"]

\* EventEmitter.emit, "this.events[event]" (no listener is called when there
\* is none)
ListenersFor(registry, event) == registry["ee"][event]

MutVisitToCurrentLength(len, array) == Len(array)

\* Array.prototype.forEach: the indices visited are those below the length
\* the array had when forEach was called, whatever is pushed meanwhile
VisitBound(len, array) == len

RECURSIVE eeEmit(_, _, _)
RECURSIVE forEachListener(_, _, _, _, _, _, _)
RECURSIVE runListener(_, _, _, _)

\* the body of the listener `callback` called by emit(event, ...args): the
\* emitter afterwards and the calls made inside, in order
runListener(em, event, callback, args) ==
    CASE callback = "adder" -> [em |-> eeOn(em, event, "g"), invoked |-> <<>>]
      [] callback = "remover" -> [em |-> eeOff(em, event, "g"), invoked |-> <<>>]
      [] callback = "reemit" ->
            LET inner == eeEmit(em, event, <<>>) IN
            [em |-> inner.em, invoked |-> inner.invoked]
      [] callback \in OnceWrappers ->
            \* "this.off(event, onceWrapper); callback(...args);"
            LET body == runListener(eeOff(em, event, callback), event,
                                    Inner(callback), args)
            IN  [em |-> body.em,
                 invoked |-> <<[callback |-> Inner(callback), args |-> args]>>
                             \o body.invoked]
      [] OTHER -> [em |-> em, invoked |-> <<>>]

\* EventEmitter.emit, "this.events[event].forEach(callback => ...)" from the
\* i-th element on.  `array` is the array forEach was called on, as it is now,
\* `len` its length when forEach was called, and `gen` the assignment count of
\* this.events[event] at that time: while the count is the same the array is
\* still this.events[event] and on() pushes onto it.  The result: the emitter
\* afterwards, every call made in order, the listeners forEach itself called,
\* and whether the loop was left by an exception.
forEachListener(em, event, array, len, gen, i, args) ==
    IF i > VisitBound(len, array) \/ i > Len(array)
    THEN [em |-> em, invoked |-> <<>>, direct |-> <<>>, thrown |-> FALSE]
    ELSE LET c == callListener(array[i], args) IN
         IF c.thrown
         THEN [em |-> em, invoked |-> <<c.call>>, direct |-> <<array[i]>>,
               thrown |-> TRUE]
         ELSE LET body == runListener(em, event, array[i], args)
                  array1 == IF event \in body.em.keys /\ body.em.gen[event] = gen
                            THEN ListenersFor(body.em.registry, event)
                            ELSE array
                  rest == forEachListener(body.em, event, array1, len, gen,
                                          i + 1, args)
              IN  [em |-> rest.em,
                   invoked |-> <<c.call>> \o body.invoked \o rest.invoked,
                   direct |-> <<array[i]>> \o rest.direct,
                   thrown |-> rest.thrown]

\* EventEmitter.emit(event, ...args): "if (!this.events[event]) return;", else
\* the forEach and "return this"
eeEmit(em, event, args) ==
    IF event \notin em.keys
    THEN [em |-> em, invoked |-> <<>>, direct |-> <<>>, thrown |-> FALSE,
          value |-> "undefined"]
    ELSE LET array == ListenersFor(em.registry, event)
             loop == forEachListener(em, event, array, Len(array),
                                     em.gen[event], 1, args)
         IN  [em |-> loop.em, invoked |-> loop.invoked, direct |-> loop.direct,
              thrown |-> loop.thrown, value |-> "this"]

\* the listeners registered on the plain emitter, over all its events
ListenerCount(registry) ==
    Len(registry["ee"]["clap"]) + Len(registry["ee"]["toggle"])

\* emitter.on(event, callback)
EeOn(event, callback) ==
    /\ ListenerCount(events) < MaxListeners
    /\ LET em == eeOn(Emitter(events, eventKeys), event, callback) IN
        /\ events' = em.registry
        /\ eventKeys' = em.keys
    /\ emitted' = <<>>
    /\ call' = [op |-> "EventEmitter.on", event |-> event, ret |-> "this"]
    /\ UNCHANGED <<now, options, smState, csVars, apVars, asyncVars, histVars,
                   storeVars>>

\* emitter.once(event, callback), for a callback that has no onceWrapper
\* registered for the event
EeOnce(event, callback) ==
    /\ ListenerCount(events) < MaxListeners
    /\ \A i \in 1..Len(events["ee"][event]) :
          events["ee"][event][i] # WrapperOf(callback)
    /\ LET em == eeOnce(Emitter(events, eventKeys), event, callback) IN
        /\ events' = em.registry
        /\ eventKeys' = em.keys
    /\ emitted' = <<>>
    /\ call' = [op |-> "EventEmitter.once", event |-> event, ret |-> "this"]
    /\ UNCHANGED <<now, options, smState, csVars, apVars, asyncVars, histVars,
                   storeVars>>

\* emitter.off(event, callback)
EeOff(event, callback) ==
    /\ LET em == eeOff(Emitter(events, eventKeys), event, callback) IN
        /\ events' = em.registry
        /\ eventKeys' = em.keys
    /\ emitted' = <<>>
    /\ call' = [op |-> "EventEmitter.off", event |-> event, ret |-> "this"]
    /\ UNCHANGED <<now, options, smState, csVars, apVars, asyncVars, histVars,
                   storeVars>>

\* emitter.off(event)
EeOffAll(event) ==
    /\ LET em == eeOffAll(Emitter(events, eventKeys), event) IN
        /\ events' = em.registry
        /\ eventKeys' = em.keys
    /\ emitted' = <<>>
    /\ call' = [op |-> "EventEmitter.off", event |-> event, ret |-> "this"]
    /\ UNCHANGED <<now, options, smState, csVars, apVars, asyncVars, histVars,
                   storeVars>>

\* emitter.emit(event, ...args), as long as the listeners it leaves registered
\* are no more than MaxListeners
EeEmit(event, args) ==
    /\ LET e == eeEmit(Emitter(events, eventKeys), event, args) IN
        /\ ListenerCount(e.em.registry) <= MaxListeners
        /\ events' = e.em.registry
        /\ eventKeys' = e.em.keys
        /\ call' = [op |-> "EventEmitter.emit", event |-> event, args |-> args,
                    invoked |-> e.invoked, direct |-> e.direct,
                    ret |-> IF e.thrown THEN "throws" ELSE "returns",
                    value |-> e.value]
    /\ emitted' = Emit(events, "ee", event, args)
    /\ UNCHANGED <<now, options, smState, csVars, apVars, asyncVars, histVars,
                   storeVars>>

InitEmitter ==
    /\ Constructed(SetupRegistry)
    /\ options.requiredClaps = DefaultRequiredClaps

NextEmitter ==
    \/ \E event \in EmitterEvents, callback \in Callbacks : EeOn(event, callback)
    \/ \E event \in EmitterEvents, callback \in Callbacks : EeOff(event, callback)
    \/ \E event \in EmitterEvents : EeOffAll(event)
    \/ \E event \in EmitterEvents, args \in ArgLists : EeEmit(event, args)

SpecEmitter == InitEmitter /\ [][NextEmitter]_vars

(***************************************************************************)
(* The plain emitter with listeners that use it while emit runs, and with  *)
(* once().                                                                 *)
(***************************************************************************)

NextReentrant ==
    \/ \E event \in ReentrantEvents, callback \in ReentrantCallbacks :
          EeOn(event, callback)
    \/ \E event \in ReentrantEvents, callback \in OnceCallbacks :
          EeOnce(event, callback)
    \/ \E event \in ReentrantEvents, callback \in ReentrantCallbacks :
          EeOff(event, callback)
    \/ \E event \in ReentrantEvents : EeOffAll(event)
    \/ \E event \in ReentrantEvents, args \in ArgLists : EeEmit(event, args)

SpecReentrant == InitEmitter /\ [][NextReentrant]_vars

(***************************************************************************)
(* Properties.                                                             *)
(***************************************************************************)

\* the emissions of the last step made by obj under the name `name`
EmittedBy(obj, name) ==
    SelectSeq(emitted, LAMBDA e : e.src = obj /\ e.name = name)

\* position of the first emission of the last step by obj under `name` (0: none)
FirstIndex(obj, name) ==
    IF \E i \in 1..Len(emitted) : emitted[i].src = obj /\ emitted[i].name = name
    THEN SetMin({i \in 1..Len(emitted) :
                    emitted[i].src = obj /\ emitted[i].name = name})
    ELSE 0

\* the episode has had exactly requiredClaps claps (requiredClaps >= 1), and
\* started from _clapCount = 0
EpisodeFull ==
    /\ options.requiredClaps >= 1
    /\ ep.valid
    /\ ep.claps = options.requiredClaps

\* what C1 promises of such an episode
EpisodeCompleted ==
    /\ ep.patterns = 1
    /\ ep.patternArg = options.requiredClaps
    /\ ep.cancels = 0
    /\ ep.toggles = 1
    /\ clapCount = 0

\* C1, as stated: requiredClaps claps from _clapCount = 0, no two consecutive
\* ones more than clapTimeout ms apart (every episode is such a sequence), give
\* exactly one 'pattern' with payload requiredClaps, no 'pattern-canceled',
\* one toggle request, and _clapCount = 0 afterwards.
C1_PatternCompletion == EpisodeFull => EpisodeCompleted

\* C1, amended: the same when every two consecutive claps are less than
\* clapTimeout ms apart.
C1_PatternCompletionStrict == (EpisodeFull /\ ep.lt) => EpisodeCompleted

C1_Witness ==
    /\ EpisodeFull
    /\ ep.lt
    /\ options.requiredClaps = MaxRequiredClaps
    /\ EpisodeCompleted
    /\ Len(EmittedBy("cs", "pattern")) = 1

\* the episode has had k claps, 0 < k < requiredClaps, from _clapCount = 0, and
\* more than clapTimeout ms have passed since the last of them
EpisodeAbandoned ==
    /\ options.requiredClaps >= 1
    /\ ep.valid
    /\ 0 < ep.claps
    /\ ep.claps < options.requiredClaps
    /\ now - lastClapTime > options.clapTimeout

\* what C2 promises of such an episode
EpisodeCanceled ==
    /\ ep.cancels = 1
    /\ ep.cancelArg = ep.claps
    /\ ep.patterns = 0
    /\ ep.toggles = 0
    /\ clapCount = 0

\* C2, as stated: k claps (0 < k < requiredClaps) from _clapCount = 0, each
\* within (at most) clapTimeout ms of the previous one, then more than
\* clapTimeout ms without a clap, give exactly one 'pattern-canceled' with
\* payload k, no 'pattern', no toggle request, and _clapCount = 0.
C2_PatternCancellation == EpisodeAbandoned => EpisodeCanceled

\* C2, amended: the same when each clap comes less than clapTimeout ms after the
\* previous one.
C2_PatternCancellationStrict == (EpisodeAbandoned /\ ep.lt) => EpisodeCanceled

C2_Witness ==
    /\ EpisodeAbandoned
    /\ ep.lt
    /\ ep.claps = 2
    /\ EpisodeCanceled

\* C3: a timeout armed before a clap is never pending (so never fires) once
\* that clap has been handled, and no clap is reported twice: the claps
\* handled and not yet reported in a 'pattern' or 'pattern-canceled' payload
\* are never fewer than those _clapCount still holds.
C3_ClapCancelsDeadline ==
    /\ \A t \in timers : ~t.superseded
    /\ uncounted >= clapCount

\* a clap has just replaced the pending deadline of an open pattern
C3_Witness ==
    /\ call.op = "analyze"
    /\ call.ret = "clap"
    /\ clapCount = 2
    /\ Cardinality(timers) = 1
    /\ \A t \in timers : t.deadline = Deadline(now, options.clapTimeout)

\* C4: a completed pattern makes the ClapSwitch emit exactly one 'toggle' with
\* the new state, after the 'pattern' of the same clap; a manual toggle()
\* does too, and so does an on()/off() that changed the state.
C4_ToggleNotified ==
    LET toggles == EmittedBy("cs", "toggle") IN
    /\ (Len(EmittedBy("cs", "pattern")) > 0 \/ call.op = "toggle"
            \/ (call.op \in {"on", "off"} /\ call.ret = "true"))
          => /\ Len(toggles) = 1
             /\ toggles[1].arg = BoolArg(smState)
    /\ Len(EmittedBy("cs", "pattern")) > 0
          => FirstIndex("cs", "pattern") < FirstIndex("cs", "toggle")

\* C5: on(event, callback) on the ClapSwitch or its StateManager registers the
\* listener and returns the object.
C5_OnRegistersListener ==
    call.op = "on" =>
        /\ call.ret = "this"
        /\ Len(events["cs"]["toggle"]) + Len(events["sm"]["toggle"]) > 0

\* the first bin holding the maximum of a spectrum (0-based)
FirstMaxBin(spectrum) ==
    SetMin({i \in 1..Len(spectrum) :
               \A j \in 1..Len(spectrum) : spectrum[j] <= spectrum[i]}) - 1

\* C6: calculateDominantFrequency returns i * sampleRate / fftSize for i the
\* first bin holding the maximum, for every non-empty spectrum.
C6_DominantFrequency ==
    call.op = "calculateDominantFrequency" =>
        call.ret = <<FirstMaxBin(call.arg) * SampleRate, FftSize>>

\* C7: a listening processor whose next tick reads a frame past the amplitude
\* gate with an attack time in range, and a spectrum whose largest bin maps
\* into frequencyRange, more than the cooldown after the last clap, emits a
\* 'clap' in that tick (the tick emits one exactly when analyze classifies
\* its inputs as a clap).
C7_PositiveDetection ==
    (isListening /\ frames # {} /\ now - lastClapTime > CooldownPeriod) =>
        \A frame \in Frames, spectrum \in Spectra :
            (/\ frame \in FramesPassingGate
             /\ frame \in FramesWithCorrectAttackTime
             /\ InFrequencyRange(<<FirstMaxBin(spectrum) * SampleRate, FftSize>>,
                                 DefaultFrequencyLow, DefaultFrequencyHigh))
                => IsClap(frame, spectrum, now, lastClapTime)

\* C8: at most one analysis loop is pending and at most one capture stream is
\* live.
C8_SingleLoopAndStream ==
    /\ Cardinality(frames) <= 1
    /\ Cardinality(liveStreams) <= 1

\* C9: once stopped (the processor is idle; it is idle only before the first
\* start and after a stop), no pattern timeout is pending and no
\* 'pattern-canceled' is emitted.
C9_StopCancelsTimeout ==
    ~isListening =>
        /\ timers = {}
        /\ Len(EmittedBy("cs", "pattern-canceled")) = 0

\* C10: _clapTimer holds a timer if and only if 0 < _clapCount < requiredClaps.
C10_DeadlineIffAccumulating ==
    (clapTimer # 0) <=> (0 < clapCount /\ clapCount < options.requiredClaps)

\* C11: a ClapSwitch never has more than one pending pattern timeout.
C11_SinglePendingTimeout == Cardinality(timers) <= 1

\* a second clap has been handled while the timeout of the first was pending,
\* and the only pending timeout is the one it armed
C11_Witness ==
    /\ ep.claps = 2
    /\ clapCount = 2
    /\ timers = {[id |-> clapTimer,
                  deadline |-> Deadline(lastClapTime, options.clapTimeout),
                  superseded |-> FALSE]}

\* C12: AudioProcessor.stop() while idle, and AudioProcessor.start() while
\* listening (as ClapSwitch.stop() and ClapSwitch.start() call them), change
\* no field of the processor, request no microphone access, release nothing,
\* schedule no tick, and make the processor emit nothing.
C12_LifecycleIdempotent ==
    [][((CsStop /\ ~isListening) \/ (CsStart(TRUE) /\ isListening))
          => /\ UNCHANGED <<apVars, asyncVars>>
             /\ \A i \in 1..Len(emitted') : emitted'[i].src # "ap"]_vars

\* start() has returned at once on a listening processor
C12_Witness ==
    /\ call = [op |-> "start", ret |-> "resolved"]
    /\ isListening
    /\ Len(EmittedBy("ap", "start")) = 0
    /\ Len(EmittedBy("cs", "start")) = 1

\* C13: whenever the processor is idle after a stop() (it is idle only before
\* the first start and after a stop), no analysis tick is pending.
C13_StopCancelsTick == ~isListening => frames = {}

\* C14: in sequential start()/stop() cycles (each call made when no other is
\* in progress, beginning with no stream live) the stream a start() acquires
\* is the only live one and the microphone source reads it, and the matching
\* stop() stops its tracks, disconnects the microphone and forgets the stream
\* (so that no later stop() stops them again): no stream is live while idle.
C14_SequentialCyclesReleaseStreams ==
    [][/\ (MicGranted /\ ~isListening /\ awaitingMic = 1 /\ liveStreams = {})
            => /\ liveStreams' = {mediaStream'}
               /\ microphone' = mediaStream'
       /\ (CsStop /\ isListening /\ awaitingMic = 0 /\ liveStreams = {mediaStream})
            => /\ ~isListening'
               /\ liveStreams' = {}
               /\ microphone' = 0
               /\ mediaStream' = 0]_vars

\* a stop() has just ended a cycle and released its stream
C14_Witness ==
    /\ everStarted
    /\ call.op = "stop"
    /\ Len(EmittedBy("ap", "stop")) = 1
    /\ awaitingMic = 0
    /\ liveStreams = {}
    /\ microphone = 0
    /\ mediaStream = 0

\* C15: while no start() has succeeded and none is in progress (every start()
\* so far has failed), the processor is as it was constructed: not listening,
\* holding no audio context, no stream and no source, with no tick scheduled.
C15_FailedStartLeavesNoTrace ==
    (~everStarted /\ awaitingMic = 0) =>
        /\ ~isListening
        /\ ~audioContext
        /\ mediaStream = 0
        /\ microphone = 0
        /\ liveStreams = {}
        /\ frames = {}
        /\ animationFrame = 0

\* C16: a ClapSwitch.start() that fails because microphone access is refused
\* (the AudioProcessor reports the error) makes the ClapSwitch emit exactly one
\* 'error' and no 'start', and rejects.
C16_ErrorSurfacedOnce ==
    (call.op = "start" /\ Len(EmittedBy("ap", "error")) > 0) =>
        /\ call.ret = "rejected"
        /\ Len(EmittedBy("cs", "error")) = 1
        /\ Len(EmittedBy("cs", "start")) = 0

\* C17: the ClapSwitch emits 'start' only in a step that takes the processor
\* from idle to listening, and 'stop' only in a step that takes it from
\* listening to idle.
C17_StartStopAlternate ==
    [][/\ (\E i \in 1..Len(emitted') :
               emitted'[i].src = "cs" /\ emitted'[i].name = "start")
            => (~isListening /\ isListening')
       /\ (\E i \in 1..Len(emitted') :
               emitted'[i].src = "cs" /\ emitted'[i].name = "stop")
            => (isListening /\ ~isListening')]_vars

\* the inputs that pass the amplitude, attack and frequency gates of analyze
QualifyingInputs ==
    (FramesPassingGate \cap FramesWithCorrectAttackTime) \X SpectraInFrequencyRange

\* C18: a tick emits a 'clap' only if the previous one was emitted no less than
\* the cooldown before (so of two qualifying frames analysed less than the
\* cooldown apart, the first having produced a clap, the second produces
\* none); it then records its own time.  A qualifying frame analysed less than
\* the cooldown after the last clap is not classified as a clap, and one
\* analysed more than the cooldown after it is.
C18_Cooldown ==
    [][/\ (call'.op = "analyze" /\ call'.ret = "clap")
            => /\ now - lastClapTime >= CooldownPeriod
               /\ lastClapTime' = now
               /\ Cardinality({i \in 1..Len(emitted') :
                     emitted'[i].src = "ap" /\ emitted'[i].name = "clap"}) = 1
       /\ \A q \in QualifyingInputs :
            /\ now - lastClapTime < CooldownPeriod
                  => ~IsClap(q[1], q[2], now, lastClapTime)
            /\ now - lastClapTime > CooldownPeriod
                  => IsClap(q[1], q[2], now, lastClapTime)]_vars

\* the second of two claps, each emitted more than the cooldown after the one
\* before
C18_Witness ==
    /\ call = [op |-> "analyze", ret |-> "clap"]
    /\ lastClapTime = now
    /\ ep.claps >= 2
    /\ QualifyingInputs # {}

\* the frames with rms <= threshold or db <= minDecibels
QuietFrames ==
    {frame \in Frames :
        \/ ~RmsExceeds(frame, DefaultThreshold)
        \/ amplitudeToDecibels(calculateRMS(frame)) <= DefaultMinDecibels}

\* C19: a frame with rms <= threshold or db <= minDecibels does not pass the
\* amplitude gate (so analyze reads no spectrum for it) and is not classified
\* as a clap, whatever the spectrum and the time since the last clap; a tick
\* without a clap emits nothing and leaves _lastClapTime unchanged.
C19_AmplitudeGate ==
    [][/\ QuietFrames \cap FramesPassingGate = {}
       /\ \A frame \in QuietFrames, spectrum \in Spectra :
              ~IsClap(frame, spectrum, now, lastClapTime)
       /\ (call'.op = "analyze" /\ call'.ret = "none")
            => /\ lastClapTime' = lastClapTime
               /\ emitted' = <<>>]_vars

\* a listening processor has run a tick without a clap although the cooldown
\* had elapsed, and both kinds of quiet frame are among the inputs
C19_Witness ==
    /\ call = [op |-> "analyze", ret |-> "none"]
    /\ isListening
    /\ now - lastClapTime > CooldownPeriod
    /\ Cardinality(QuietFrames) = 2

\* the spectra whose dominant frequency (bin * sampleRate / fftSize, in Hz) is
\* within frequencyRange, both ends included
SpectraWithinRange ==
    {spectrum \in Spectra :
        LET hz == DominantBin(spectrum) * BinWidthHz IN
        hz >= DefaultFrequencyLow /\ hz <= DefaultFrequencyHigh}

\* the frames whose attack time is within [minAttackTime, maxAttackTime]
FramesWithinAttack ==
    {frame \in Frames :
        getAttackTime(frame, DefaultThreshold)
            \in DefaultMinAttackTime..DefaultMaxAttackTime}

C22_InvalidConfigRejected ==
    options.requiredClaps < 1 => (ep.claps = 0 /\ clapCount = 0)

\* C23: a 'pattern' is emitted only if the clap that completes the pattern
\* arrived no more than clapTimeout ms after the first clap of the pattern.
C23_WholeSequenceWindow ==
    Len(EmittedBy("cs", "pattern")) > 0 => now - ep.first <= options.clapTimeout

\* C24: a tick in which the processor detects a clap makes the ClapSwitch emit
\* exactly one 'clap', with payload _clapCount + 1 (the count including this
\* clap), before any 'pattern' of the same tick; and the pattern state after
\* the tick is what _handleClap alone makes of the state before it.
C24_ClapObserved ==
    [][(call'.op = "analyze" /\ call'.ret = "clap") =>
          LET claps == {i \in 1..Len(emitted') :
                           emitted'[i].src = "cs" /\ emitted'[i].name = "clap"}
              h == handleClap(events, clapCount, clapTimer, timers, smState,
                              options, now)
          IN  /\ Cardinality(claps) = 1
              /\ \A i \in claps :
                    /\ emitted'[i].arg = clapCount + 1
                    /\ \A j \in 1..Len(emitted') :
                          (emitted'[j].src = "cs" /\ emitted'[j].name = "pattern")
                              => i < j
              /\ clapCount' = h.count
              /\ clapTimer' = h.timer
              /\ timers' = h.timers
              /\ smState' = h.state]_vars

\* the second clap of a two-clap pattern: 'clap' with payload 2, then 'pattern'
C24_Witness ==
    /\ call = [op |-> "analyze", ret |-> "clap"]
    /\ options.requiredClaps = 2
    /\ Len(EmittedBy("cs", "clap")) = 1
    /\ EmittedBy("cs", "clap")[1].arg = 2
    /\ FirstIndex("cs", "clap") < FirstIndex("cs", "pattern")

\* C21: a ClapSwitch just constructed with statePersistence, in a page whose
\* localStorage works, after an earlier ClapSwitch that used the same storage
\* (statePersistence enabled, no storage call failed), reports the isOn() the
\* earlier instance reported last.
C21_StateRemembered ==
    (/\ call.op = "new ClapSwitch"
     /\ smOptions.statePersistence
     /\ localStorage.available
     /\ ~inst.readFailed
     /\ ~inst.writeFailed
     /\ prior.kind = "ClapSwitch"
     /\ prior.persist
     /\ prior.ok)
        => smState = prior.state

\* the arguments of setState that JavaScript takes for true: true, 1, and the
\* non-empty strings
TruthyArgs == {"true", "1", "'true'", "'false'"}

\* C25: setState(v) with !!v different from the state sets the state to !!v,
\* emits exactly one 'toggle' carrying it and returns true; with !!v equal to
\* the state it leaves the state, emits nothing, makes no storage call and
\* returns false.  A second consecutive on() (or off()) returns false and
\* emits nothing.
C25_SetState ==
    [][/\ call'.op = "setState" =>
            LET b == call'.arg \in TruthyArgs IN
            IF b # smState
            THEN /\ smState' = b
                 /\ Len(emitted') = 1
                 /\ emitted'[1] = [src |-> "sm", name |-> "toggle", arg |-> BoolArg(b)]
                 /\ call'.ret = "true"
            ELSE /\ smState' = smState
                 /\ emitted' = <<>>
                 /\ storageLog' = <<>>
                 /\ localStorage' = localStorage
                 /\ call'.ret = "false"
       /\ (call'.op \in {"on", "off"} /\ call.op = call'.op) =>
            /\ call'.ret = "false"
            /\ emitted' = <<>>
            /\ smState' = smState
            /\ storageLog' = <<>>]_vars

\* setState('false') (a non-empty string) has turned the switch on and the new
\* state has been stored
C25_Witness ==
    /\ call = [op |-> "setState", arg |-> "'false'", ret |-> "true"]
    /\ smState
    /\ storageLog = <<"setItem">>
    /\ localStorage.item = "true"
    /\ Len(EmittedBy("sm", "toggle")) = 1

\* C26: toggle() (of the StateManager, and of the ClapSwitch, which calls it)
\* sets the state to its negation, makes the StateManager emit exactly one
\* 'toggle' carrying the new state, and returns the new state, which is what
\* isOn() returns then; a toggle() straight after a toggle() brings the state
\* back to what it was before the first.
C26_Toggle ==
    [][call'.op = "toggle" =>
          /\ smState' = ~smState
          /\ Len(emitted') = 1
          /\ emitted'[1] = [src |-> "sm", name |-> "toggle", arg |-> BoolArg(~smState)]
          /\ call'.ret = StringOf(smState')
          /\ call.op = "toggle" => call'.ret # call.ret]_vars

\* toggle() has switched off a ClapSwitch that stores its state, and returned
\* false
C26_Witness ==
    /\ call = [op |-> "toggle", ret |-> "false"]
    /\ inst.kind = "ClapSwitch"
    /\ ~smState
    /\ localStorage.item = "false"
    /\ storageLog = <<"setItem">>
    /\ Len(EmittedBy("sm", "toggle")) = 1

\* C27: after every step, if statePersistence is enabled, localStorage exists,
\* no setItem has thrown and the state has changed at least once since the
\* construction, the item stored is String(isOn()); if statePersistence is
\* disabled, the step has made no localStorage call and has left the item as
\* it was.
C27_StoredState ==
    [][/\ (/\ smOptions'.statePersistence
           /\ localStorage'.available
           /\ inst'.changed
           /\ ~inst'.writeFailed)
            => localStorage'.item = StringOf(smState')
       /\ ~smOptions'.statePersistence
            => /\ storageLog' = <<>>
               /\ localStorage' = localStorage]_vars

\* off() has switched off a StateManager that found 'true' stored, and has
\* stored 'false'
C27_Witness ==
    /\ call = [op |-> "off", ret |-> "true"]
    /\ inst.kind = "StateManager"
    /\ smOptions.statePersistence
    /\ ~inst.readFailed
    /\ ~inst.writeFailed
    /\ ~smState
    /\ storageLog = <<"setItem">>
    /\ localStorage.item = "false"

\* C28: a StateManager constructed while getItem throws starts in
\* options.initialState; a state-changing call during which setItem throws
\* returns what it returns otherwise (true, or the new state for toggle()),
\* changes _state, emits 'toggle' with the new state, and leaves the stored
\* item as it was.
C28_StorageFailureContained ==
    [][/\ (call'.op = "new StateManager" /\ storageLog' = <<"getItem throws">>)
            => smState' = smOptions'.initialState
       /\ (/\ call'.op \in {"setState", "toggle", "on", "off"}
           /\ storageLog' = <<"setItem throws">>)
            => /\ smState' = ~smState
               /\ emitted' = <<[src |-> "sm", name |-> "toggle",
                                arg |-> BoolArg(~smState)]>>
               /\ call'.ret = IF call'.op = "toggle" THEN StringOf(~smState)
                              ELSE "true"
               /\ localStorage' = localStorage]_vars

\* a StateManager with initialState = true was constructed while getItem threw
\* although 'false' was stored, and its off() during which setItem threw has
\* switched it off
C28_Witness ==
    /\ inst.kind = "StateManager"
    /\ smOptions.initialState
    /\ inst.readFailed
    /\ call = [op |-> "off", ret |-> "true"]
    /\ storageLog = <<"setItem throws">>
    /\ ~smState
    /\ Len(EmittedBy("sm", "toggle")) = 1

\* C29: emit(event, ...args) calls the listeners registered for event, one
\* call per registration, in the order of registration, each with the
\* arguments given to emit, and makes no other call.
C29_EmitInvokesListeners ==
    call.op = "EventEmitter.emit" =>
        LET listeners == events["ee"][call.event] IN
        call.invoked = [i \in 1..Len(listeners) |->
                           [callback |-> listeners[i], args |-> call.args]]

\* emit('clap', 1, 2) has called f twice (it is registered twice) around g,
\* and not the listener of 'toggle'
C29_Witness ==
    /\ call.op = "EventEmitter.emit"
    /\ call.event = "clap"
    /\ events["ee"]["clap"] = <<"f", "g", "f">>
    /\ call.invoked = <<[callback |-> "f", args |-> <<1, 2>>],
                        [callback |-> "g", args |-> <<1, 2>>],
                        [callback |-> "f", args |-> <<1, 2>>]>>

\* C30: when a listener throws during emit, emit does not throw and every
\* listener registered after it is still called exactly once (the calls made
\* are one per registration, in order).
C30_ThrowingListenerContained ==
    (/\ call.op = "EventEmitter.emit"
     /\ \E i \in 1..Len(events["ee"][call.event]) :
            Throws(events["ee"][call.event][i]))
        => /\ call.ret = "returns"
           /\ Len(call.invoked) = Len(events["ee"][call.event])
           /\ \A j \in 1..Len(call.invoked) :
                 call.invoked[j].callback = events["ee"][call.event][j]

\* emit has called g after the listener that threw
C30_Witness ==
    /\ call.op = "EventEmitter.emit"
    /\ call.ret = "returns"
    /\ events["ee"][call.event] = <<"f", "thrower", "g">>
    /\ Len(call.invoked) = 3
    /\ call.invoked[3].callback = "g"

\* what a step's localStorage calls have written
WritesOf(log) == {i \in 1..Len(log) : log[i] \in {"setItem", "setItem throws"}}

\* C39: constructing a ClapSwitch leaves the on/off state as the StateManager
\* found it: right after new ClapSwitch(...) isOn() is a state
\* _getInitialState may return for the options and the storage of the page,
\* no 'toggle' has been emitted, and no setItem call has been made.
C39_ConstructionKeepsState ==
    [][call'.op = "new ClapSwitch"
        => /\ smState' \in {g.state : g \in getInitialState(smOptions', localStorage)}
           /\ emitted' = <<>>
           /\ WritesOf(storageLog') = {}
           /\ localStorage' = localStorage]_vars

\* the payloads of the `name` notifications of the ClapSwitch in the last step
PayloadsOf(name) ==
    {EmittedBy("cs", name)[i].arg : i \in 1..Len(EmittedBy("cs", name))}

\* C33: with requiredClaps >= 1, in every state 0 <= _clapCount <
\* requiredClaps; every 'pattern' payload is requiredClaps, every
\* 'pattern-canceled' payload lies strictly between 0 and requiredClaps, every
\* 'clap' payload lies in 1..requiredClaps, and the timeout callback always
\* finds _clapCount > 0, so that it emits 'pattern-canceled'.
C33_CountWithinPattern ==
    options.requiredClaps >= 1
        => /\ clapCount \in 0..(options.requiredClaps - 1)
           /\ PayloadsOf("pattern") \subseteq {options.requiredClaps}
           /\ PayloadsOf("pattern-canceled") \subseteq 1..(options.requiredClaps - 1)
           /\ PayloadsOf("clap") \subseteq 1..options.requiredClaps
           /\ call.op = "timeout" => Len(EmittedBy("cs", "pattern-canceled")) = 1

\* with requiredClaps = 3, the timeout callback has found two claps counted and
\* has canceled the pattern with payload 2
C33_Witness ==
    /\ options.requiredClaps = 3
    /\ call.op = "timeout"
    /\ PayloadsOf("pattern-canceled") = {2}
    /\ clapCount = 0
    /\ timers = {}

\* C34: every clap handled is accounted for once: the claps handled so far are
\* those reported in 'pattern' and 'pattern-canceled' payloads plus
\* _clapCount (the claps handled and not yet reported are exactly _clapCount),
\* and a step of the pattern logic asks the StateManager to toggle once for
\* every 'pattern' it emits, and not otherwise.
C34_ClapsAccounted ==
    /\ uncounted = clapCount
    /\ ep.toggles = ep.patterns
    /\ call.op \in {"analyze", "timeout"}
        => Len(EmittedBy("sm", "toggle")) = Len(EmittedBy("cs", "pattern"))

\* the third clap with requiredClaps = 3 has completed the pattern: payload 3
\* reported, one toggle requested, nothing left to report
C34_Witness ==
    /\ options.requiredClaps = 3
    /\ call = [op |-> "analyze", ret |-> "clap"]
    /\ PayloadsOf("pattern") = {3}
    /\ Len(EmittedBy("sm", "toggle")) = 1
    /\ clapCount = 0
    /\ uncounted = 0
    /\ ep.claps = 3

\* C35: after every step, the timeout pending after a clap that left the
\* pattern incomplete is the only one pending and is due clapTimeout ms after
\* that clap, the most recent one, and not in the past; 'pattern-canceled' is
\* emitted by the timeout callback only, exactly clapTimeout ms after the most
\* recent clap, with the count reached by the claps of the incomplete pattern.
C35_DeadlineFollowsLastClap ==
    [][/\ \A t \in timers' :
             /\ t.deadline = lastClapTime' + options.clapTimeout
             /\ t.deadline >= now'
             /\ timers' = {t}
       /\ Len(EmittedBy("cs", "pattern-canceled")') > 0
            => /\ call'.op = "timeout"
               /\ now' = lastClapTime' + options.clapTimeout
               /\ PayloadsOf("pattern-canceled")' = {clapCount}]_vars

\* requiredClaps = 3: two claps 200 ms apart, then silence; the pattern is
\* canceled with count 2, clapTimeout ms after the second clap and more than
\* clapTimeout ms after the first
C35_Witness ==
    /\ options.requiredClaps = 3
    /\ call.op = "timeout"
    /\ PayloadsOf("pattern-canceled") = {2}
    /\ ep.first < lastClapTime
    /\ now = lastClapTime + options.clapTimeout
    /\ now > ep.first + options.clapTimeout

\* C37: _lastClapTime changes only in a step of analyze that emits 'clap', and
\* then becomes the time of that step; a step of analyze that emits none
\* leaves it as it was.  A 'clap' is emitted only more than the cooldown after
\* the previous one, and a qualifying frame analysed more than the cooldown
\* after the last emitted clap is classified as a clap.
C37_CooldownFromLastClap ==
    [][/\ lastClapTime' # lastClapTime
            => /\ call' = [op |-> "analyze", ret |-> "clap"]
               /\ Len(EmittedBy("ap", "clap")') = 1
               /\ lastClapTime' = now
       /\ (call'.op = "analyze" /\ call'.ret # "clap")
            => /\ lastClapTime' = lastClapTime
               /\ Len(EmittedBy("ap", "clap")') = 0
       /\ Len(EmittedBy("ap", "clap")') > 0
            => now - lastClapTime > CooldownPeriod
       /\ \A q \in QualifyingInputs :
            now - lastClapTime > CooldownPeriod
                => IsClap(q[1], q[2], now, lastClapTime)]_vars

\* a frame analysed while listening, 200 ms after a clap, has emitted nothing
\* and has left _lastClapTime at the time of that clap
C37_Witness ==
    /\ call = [op |-> "analyze", ret |-> "none"]
    /\ isListening
    /\ lastClapTime >= StartTime
    /\ now - lastClapTime \in 1..(CooldownPeriod - 1)
    /\ clapCount > 0

\* C38: a step of stop() or of start() (the call, or the completion of the
\* microphone request) leaves _lastClapTime as it was, and in every state
\* reached, whatever stops and starts came before, no qualifying frame
\* analysed within the cooldown of the last clap emitted is classified as a
\* clap.
C38_CooldownSurvivesRestart ==
    [][/\ call'.op \in {"start", "stop"} => lastClapTime' = lastClapTime
       /\ now' - lastClapTime' <= CooldownPeriod
            => \A q \in QualifyingInputs :
                  ~IsClap(q[1], q[2], now', lastClapTime')]_vars

\* the AudioProcessor, stopped after a clap, has started again within the
\* cooldown of that clap: one stream is live, _lastClapTime is still the time
\* of the clap, and every frame analysed now is suppressed
C38_Witness ==
    /\ call = [op |-> "start", ret |-> "resolved"]
    /\ Len(EmittedBy("ap", "start")) = 1
    /\ isListening
    /\ Cardinality(liveStreams) = 1
    /\ lastClapTime >= StartTime
    /\ now - lastClapTime < CooldownPeriod
    /\ AnalyzeOutcomes(now, lastClapTime) = {FALSE}

\* the options with clapInterval replaced
WithInterval(opts, interval) == [opts EXCEPT !.clapInterval = interval]

\* C36: clapInterval has no effect.  No step changes the options, and in
\* every state the handling of a clap (the fields of the switch afterwards,
\* the timeout armed, the notifications emitted) is the same under every other
\* value of clapInterval; the timeout callback and toggle() read no option.
\* Hence two switches that differ in clapInterval only and take the same steps
\* at the same times stay in states that differ in clapInterval only and emit
\* the same notifications.
C36_IntervalIgnored ==
    [][/\ options' = options
       /\ \A interval \in ClapIntervals :
            /\ onClap(events, clapCount, clapTimer, timers, smState,
                      WithInterval(options, interval), now)
                 = onClap(events, clapCount, clapTimer, timers, smState,
                          options, now)
            /\ onClap(events', clapCount', clapTimer', timers', smState',
                      WithInterval(options', interval), now')
                 = onClap(events', clapCount', clapTimer', timers', smState',
                          options', now')]_vars

\* with clapInterval = 1000 and clapTimeout = 500, two claps 400 ms apart
\* have completed the pattern
C36_Witness ==
    /\ options.clapInterval = 2 * DefaultClapInterval
    /\ options.clapInterval > options.clapTimeout
    /\ call = [op |-> "analyze", ret |-> "clap"]
    /\ PayloadsOf("pattern") = {2}
    /\ now - ep.first = 2 * Quantum

\* C31: emit(event, ...args) returns the emitter itself, whatever the event
\* and whether or not a listener is registered for it.
C31_EmitReturnsEmitter ==
    call.op = "EventEmitter.emit" => call.value = "this"

\* C32: a listener registered with once(event, cb) and present when
\* emit(event, ...args) is called is called exactly once in the course of
\* that call, with the arguments of that call, also when a callback emits the
\* event again meanwhile, and is no longer registered afterwards.
C32_OnceInvokedOnce ==
    [][call'.op = "EventEmitter.emit"
        => \A i \in 1..Len(events["ee"][call'.event]) :
              LET wrapper == events["ee"][call'.event][i]
                  calls == {j \in 1..Len(call'.invoked) :
                               call'.invoked[j].callback = wrapper}
              IN  wrapper \in OnceWrappers
                    => /\ Cardinality(calls) = 1
                       /\ \A j \in calls : call'.invoked[j].args = call'.args
                       /\ \A k \in 1..Len(events'["ee"][call'.event]) :
                             events'["ee"][call'.event][k] # wrapper]_vars

\* C40: the listeners the forEach of emit(event, ...args) calls are the
\* listeners registered for event when emit was called, each once per
\* registration and in the order of registration, whatever the listeners
\* called do to the registrations meanwhile: a listener removed during the
\* emission (by off, or a onceWrapper removing itself) is still called and no
\* other is skipped, and a listener added during the emission is not called
\* by it.
C40_EmitUsesListenersAtStart ==
    [][(call'.op = "EventEmitter.emit" /\ call'.event \in eventKeys)
        => call'.direct = events["ee"][call'.event]]_vars

\* emit('clap') with remover, g and adder registered: remover has removed g,
\* g has been called all the same, and the g that adder has registered is
\* registered last and has not been called
C40_Witness ==
    /\ call.op = "EventEmitter.emit"
    /\ call.event = "clap"
    /\ call.direct = <<"remover", "g", "adder">>
    /\ call.invoked = [i \in 1..3 |-> [callback |-> call.direct[i], args |-> call.args]]
    /\ events["ee"]["clap"] = <<"remover", "adder", "g">>

====
